---- MODULE Spec2Model ----
(***************************************************************************)
(* Mp3-Fusion: the merge pipeline of the audio service (mergeAudioTracks)  *)
(* and the React component that drives it (App).                           *)
(*                                                                         *)
(* Time is counted in ticks of 1/16 s; clip durations are even numbers of  *)
(* ticks, so that duration/2 is a whole number of ticks.  Volumes and      *)
(* gains are counted in hundredths (100 is 1.0).  A progress value is the  *)
(* exact fraction [num, den].                                              *)
(*                                                                         *)
(* One event-loop task of the browser is one action: a handler runs to     *)
(* its next await, and the promise continuations (microtasks) it releases  *)
(* run in the same task.                                                   *)
(***************************************************************************)
EXTENDS Integers, Sequences, FiniteSets, TLC

VARIABLES
  tracks,              \* App state: the playlist, a sequence of [id, file, volume]
  status,              \* App state: MergeStatus
  mergedBlob,          \* App state: 0 (null) or the merge call whose bytes are stored
  previewUrl,          \* App state: 0 (null) or the merge call whose blob the URL shows
  errorMsg,            \* App state: "null" or the message shown
  progress,            \* App state: integer percentage
  abortControllerRef,  \* App ref: 0 (null) or the merge call whose controller it holds
  showCancelModal,     \* App state
  crossfade,           \* App state: crossfade seconds, in ticks
  analyzingTrackId,    \* App state: 0 (null) or a track id
  isGeneratingEffect,  \* App state
  merges,              \* the mergeAudioTracks calls made so far, in call order
  autoLevels,          \* handleAutoLevel calls awaiting calculateOptimalVolume
  nextId,              \* the next track identity to hand out
  gestures             \* the user's inputs so far

vars == <<tracks, status, mergedBlob, previewUrl, errorMsg, progress,
          abortControllerRef, showCancelModal, crossfade, analyzingTrackId,
          isGeneratingEffect, merges, autoLevels, nextId, gestures>>

(* ------------------------------ bounds -------------------------------- *)

MaxTracks == 3        \* tracks ever imported into the playlist
MaxMerges == 2        \* mergeAudioTracks calls ever started by the App
MaxAutoLevels == 1    \* handleAutoLevel calls ever started
MaxGestures == 4      \* inputs the user makes
MaxClips == 3         \* clips of a direct mergeAudioTracks call
TicksPerSecond == 16  \* the resolution of time
SampleDen == 8        \* the resolution of a float sample: 1 / SampleDen
MaxSamples == 5       \* samples of a buffer given to the loudness analyzer
MaxFrames == 46       \* frames of a buffer given to bufferToWav

(* ------------------------- program constants -------------------------- *)

sampleRate == 44100
sampleBlockSize == 1152
progressEvery == 50
defaultCrossfade == 3 * TicksPerSecond
step == 4
targetRms == 15       \* 0.15, in hundredths of full scale

IDLE == "IDLE"
PROCESSING == "PROCESSING"
COMPLETED == "COMPLETED"
ERROR == "ERROR"

(* ------------------------------ helpers ------------------------------- *)

Max(a, b) == IF a >= b THEN a ELSE b
Min(a, b) == IF a <= b THEN a ELSE b
Last(s) == s[Len(s)]

RECURSIVE SumSeq(_)
SumSeq(s) == IF s = <<>> THEN 0 ELSE s[1] + SumSeq(Tail(s))

\* Math.ceil(a / b) for a >= 0, b > 0
CeilDiv(a, b) == (a + b - 1) \div b

Frac(n, d) == [num |-> n, den |-> d]
Whole(n) == Frac(n, 1)

\* a/b <= c/d for a, c >= 0 and b, d > 0, without forming the cross products
RECURSIVE FracLeq(_, _, _, _)
FracLeq(a, b, c, d) ==
  LET qa == a \div b
      qc == c \div d
      ra == a % b
      rc == c % d
  IN IF qa # qc THEN qa < qc
     ELSE IF ra = 0 THEN TRUE
     ELSE IF rc = 0 THEN FALSE
     ELSE FracLeq(d, rc, b, ra)

Leq(p, q) == FracLeq(p.num, p.den, q.num, q.den)

\* Math.round of a non-negative fraction: floor(x + 1/2)
MathRound(p) == (2 * p.num + p.den) \div (2 * p.den)


(* ------------- mergeAudioTracks: the mix scheduler (pure) ------------- *)

totalRawDuration(audioBuffers) == SumSeq(audioBuffers)

\* variant: one overlap per clip instead of one per adjacent pair
totalOverlapPerClip(audioBuffers, crossfadeDuration) ==
  Max(0, Len(audioBuffers) * crossfadeDuration)

totalOverlap(audioBuffers, crossfadeDuration) ==
  Max(0, (Len(audioBuffers) - 1) * crossfadeDuration)

\* Math.max(totalRawDuration - totalOverlap, 1), in ticks
finalDuration(audioBuffers, crossfadeDuration) ==
  Max(totalRawDuration(audioBuffers) - totalOverlap(audioBuffers, crossfadeDuration),
      TicksPerSecond)

\* the length handed to new OfflineAudioContext: Math.ceil(sampleRate * finalDuration)
offlineLength(audioBuffers, crossfadeDuration) ==
  CeilDiv(sampleRate * finalDuration(audioBuffers, crossfadeDuration), TicksPerSecond)

\* variant: the fade is bounded by the whole clip instead of half of it
actualFadeWholeClip(crossfadeDuration, duration) == Min(crossfadeDuration, duration)

actualFade(crossfadeDuration, duration) == Min(crossfadeDuration, duration \div 2)

\* variant: the volume is read from the App's current playlist
trackVolumeLive(tks, index) ==
  IF index <= Len(tracks) THEN tracks[index].volume ELSE 100

trackVolume(tks, index) == tks[index].volume

SetValueAtTime(v, t) == [op |-> "setValueAtTime", value |-> v, time |-> t]
LinearRampToValueAtTime(v, t) == [op |-> "linearRampToValueAtTime", value |-> v, time |-> t]

\* variant: the first clip fades in as well
fadeInEveryClip(index, fade, volume, currentStartTime) ==
  IF fade > 0
  THEN <<SetValueAtTime(0, currentStartTime),
         LinearRampToValueAtTime(volume, currentStartTime + fade)>>
  ELSE <<SetValueAtTime(volume, currentStartTime)>>

fadeIn(index, fade, volume, currentStartTime) ==
  IF index > 1 /\ fade > 0
  THEN <<SetValueAtTime(0, currentStartTime),
         LinearRampToValueAtTime(volume, currentStartTime + fade)>>
  ELSE <<SetValueAtTime(volume, currentStartTime)>>

\* variant: the fade-out is over when the next clip starts to fade in
fadeOutBeforeOverlap(index, n, fade, volume, currentStartTime, duration) ==
  IF index < n /\ fade > 0
  THEN <<SetValueAtTime(volume, currentStartTime + duration - 2 * fade),
         LinearRampToValueAtTime(0, currentStartTime + duration - fade)>>
  ELSE <<SetValueAtTime(volume, currentStartTime + fade)>>

fadeOut(index, n, fade, volume, currentStartTime, duration) ==
  IF index < n /\ fade > 0
  THEN <<SetValueAtTime(volume, currentStartTime + duration - fade),
         LinearRampToValueAtTime(0, currentStartTime + duration)>>
  ELSE <<SetValueAtTime(volume, currentStartTime + fade)>>

\* variant: the cursor advances by the clip's own fade instead of the crossfade
advanceByActualFade(currentStartTime, duration, crossfadeDuration) ==
  Max(0, currentStartTime + duration - Min(crossfadeDuration, duration \div 2))

\* variant: the cursor advances by the whole clip, the clips follow one another
\* without overlap
advanceAbutting(currentStartTime, duration, crossfadeDuration) ==
  Max(0, currentStartTime + duration)

\* the cursor after a clip: currentStartTime += duration - crossfade, not below 0
advance(currentStartTime, duration, crossfadeDuration) ==
  Max(0, currentStartTime + duration - crossfadeDuration)

\* audioBuffers.forEach((buffer, index) => ...), from clip `index` (1-based) on
RECURSIVE schedule(_, _, _, _, _)
schedule(audioBuffers, tks, crossfadeDuration, index, currentStartTime) ==
  IF index > Len(audioBuffers) THEN <<>>
  ELSE LET duration == audioBuffers[index]
           volume == trackVolume(tks, index)
           fade == actualFade(crossfadeDuration, duration)
           node == [start |-> currentStartTime,
                    duration |-> duration,
                    volume |-> volume,
                    fade |-> fade,
                    gain |-> fadeIn(index, fade, volume, currentStartTime)
                             \o fadeOut(index, Len(audioBuffers), fade, volume,
                                        currentStartTime, duration)]
       IN <<node>> \o schedule(audioBuffers, tks, crossfadeDuration, index + 1,
                               advance(currentStartTime, duration, crossfadeDuration))

\* an AudioParam keeps its automation events ordered by time; an event is placed
\* after the events already scheduled for the same time
insertEvent(events, e) ==
  LET NotAfter(x) == x.time <= e.time
      After(x) == x.time > e.time
  IN SelectSeq(events, NotAfter) \o <<e>> \o SelectSeq(events, After)

RECURSIVE timeline(_)
timeline(calls) ==
  IF calls = <<>> THEN <<>>
  ELSE insertEvent(timeline(SubSeq(calls, 1, Len(calls) - 1)), Last(calls))

\* the value of gainNode.gain at time t, in hundredths: the value of the last event
\* at or before t, or the point of the linear ramp that the next event ends; the
\* default value of a gain is 1
valueAt(events, t) ==
  LET before == {k \in DOMAIN events : events[k].time <= t}
  IN IF before = {} THEN Whole(100)
     ELSE LET k == CHOOSE j \in before : \A l \in before : l <= j
              e0 == events[k]
          IN IF k < Len(events) /\ events[k + 1].op = "linearRampToValueAtTime"
             THEN LET e1 == events[k + 1]
                  IN Frac(e0.value * (e1.time - e0.time)
                            + (e1.value - e0.value) * (t - e0.time),
                          e1.time - e0.time)
             ELSE Whole(e0.value)

(* --------------- mergeAudioTracks: one call, step by step ------------- *)

\* Math.min(100, Math.max(0, p))
clampPercent(p) ==
  IF Leq(Whole(100), p) THEN Whole(100)
  ELSE IF Leq(p, Whole(0)) THEN Whole(0)
  ELSE p

\* updateProgress(p): the value goes to the onProgress callback
updateProgress(call, p) == [call EXCEPT !.reported = Append(@, clampPercent(p))]

\* variant: progressStep = 35 / tracks.length
decodeProgressStep35(i, n) == Frac(n + (i + 1) * 35, n)

\* 1 + (i + 1) * progressStep with progressStep = 30 / tracks.length; i is 0-based
decodeProgress(i, n) == Frac(n + (i + 1) * 30, n)

\* 50 + progress * 50, for the worker's progress = i / totalSamples
encodeProgress(msg) == Frac(50 * msg.total + 50 * msg.i, msg.total)

\* audioCtx.close(); throw new DOMException("Operation cancelled", "AbortError")
throwCancelled(call) == [call EXCEPT !.audioCtx = "closed", !.promise = "AbortError"]

\* an exception of a decode or of the render leaves the function as it is
throwError(call) == [call EXCEPT !.promise = "Error"]

\* variant: the empty playlist is rejected only after the first progress report and
\* the creation of the audio context
mergeAudioTracksLateCheck(tks, crossfadeDuration, caller) ==
  LET fresh == [tracks |-> tks,
                crossfadeDuration |-> crossfadeDuration,
                caller |-> caller,
                aborted |-> FALSE,
                stage |-> "none",
                audioCtx |-> "none",
                audioBuffers |-> <<>>,
                length |-> 0,
                graph |-> <<>>,
                worker |-> "none",
                channelData |-> 0,
                samplesLeft |-> 0,
                workerI |-> 0,
                blocks |-> 0,
                flushed |-> FALSE,
                inbox |-> <<>>,
                reported |-> <<>>,
                promise |-> "pending"]
      started == [updateProgress(fresh, Whole(1)) EXCEPT !.audioCtx = "open"]
  IN IF Len(tks) = 0 THEN throwError(started)
     ELSE [started EXCEPT !.stage = "decode"]

\* the call up to its first await
mergeAudioTracks(tks, crossfadeDuration, caller) ==
  LET fresh == [tracks |-> tks,
                crossfadeDuration |-> crossfadeDuration,
                caller |-> caller,
                aborted |-> FALSE,
                stage |-> "none",
                audioCtx |-> "none",
                audioBuffers |-> <<>>,
                length |-> 0,
                graph |-> <<>>,
                worker |-> "none",
                channelData |-> 0,
                samplesLeft |-> 0,
                workerI |-> 0,
                blocks |-> 0,
                flushed |-> FALSE,
                inbox |-> <<>>,
                reported |-> <<>>,
                promise |-> "pending"]
  IN IF Len(tks) = 0 THEN throwError(fresh)
     ELSE [updateProgress(fresh, Whole(1)) EXCEPT !.audioCtx = "open", !.stage = "decode"]

\* steps 2 to 4 up to await offlineCtx.startRendering()
buildGraph(call) ==
  LET c2 == updateProgress(call, Whole(32))
      c3 == [c2 EXCEPT
               !.length = offlineLength(call.audioBuffers, call.crossfadeDuration),
               !.graph = schedule(call.audioBuffers, call.tracks,
                                  call.crossfadeDuration, 1, 0)]
      c4 == updateProgress(c3, Whole(35))
  IN IF c4.aborted THEN throwCancelled(c4) ELSE [c4 EXCEPT !.stage = "render"]

\* variant: signal.aborted is not looked at between the decodes, only before
\* and after the render
decodeResolvedUnchecked(call) ==
  LET i == Len(call.audioBuffers)
      n == Len(call.tracks)
      c1 == updateProgress(
              [call EXCEPT !.audioBuffers = Append(@, call.tracks[i + 1].file.dur)],
              decodeProgress(i, n))
  IN IF i + 1 < n THEN c1
     ELSE buildGraph(c1)

\* file.arrayBuffer() and decodeAudioData have resolved for the clip awaited
decodeResolved(call) ==
  LET i == Len(call.audioBuffers)
      n == Len(call.tracks)
      c1 == updateProgress(
              [call EXCEPT !.audioBuffers = Append(@, call.tracks[i + 1].file.dur)],
              decodeProgress(i, n))
  IN IF c1.aborted THEN throwCancelled(c1)
     ELSE IF i + 1 < n THEN c1
     ELSE buildGraph(c1)

\* variant: the check of signal.aborted after the render is missing
renderResolvedUnchecked(call) ==
  [updateProgress(call, Whole(50)) EXCEPT
     !.stage = "encode", !.worker = "running", !.workerI = 0]

\* startRendering() has resolved: the encoder worker is created and started
renderResolved(call) ==
  LET c1 == updateProgress(call, Whole(50))
  IN IF c1.aborted THEN throwCancelled(c1)
     ELSE [c1 EXCEPT !.stage = "encode", !.worker = "running", !.workerI = 0]

\* Math.max(-1, Math.min(1, x)) for a sample x in units of 1 / SampleDen
clampSample(x) == Max(-SampleDen, Min(SampleDen, x))

\* storing the number n / d in an Int16Array: the fraction is dropped (towards 0)
\* and the integer is taken modulo 2^16 into [-32768, 32767]
ToInt16(n, d) ==
  LET t == IF n >= 0 THEN n \div d ELSE -((-n) \div d)
  IN ((t + 32768) % 65536) - 32768

\* samplesLeft[i] = Math.max(-1, Math.min(1, left[i])) * 32767
quantize(x) == ToInt16(clampSample(x) * 32767, SampleDen)

\* variant: progress is posted after every block
workerBlockEveryBlock(call) ==
  IF call.workerI < call.length
  THEN [call EXCEPT
          !.samplesLeft = IF call.workerI = 0 THEN quantize(call.channelData) ELSE @,
          !.blocks = @ + 1,
          !.inbox = Append(@, [type |-> "progress", i |-> call.workerI,
                               total |-> call.length, blocks |-> call.blocks + 1,
                               flushed |-> FALSE]),
          !.workerI = @ + sampleBlockSize]
  ELSE [call EXCEPT
          !.flushed = TRUE,
          !.inbox = Append(@, [type |-> "done", i |-> call.workerI,
                               total |-> call.length, blocks |-> call.blocks,
                               flushed |-> TRUE]),
          !.worker = "finished"]

\* one pass of the worker's loop (the first pass follows the conversion of the
\* samples to Int16): the block at offset i is encoded and, when i is a
\* multiple of sampleBlockSize * 50, progress i / totalSamples is posted; after the
\* last block the encoder is flushed and 'done' is posted with mp3Data. A message
\* records the blocks encoded and whether the encoder was flushed when it was posted.
workerBlock(call) ==
  IF call.workerI < call.length
  THEN [call EXCEPT
          !.samplesLeft = IF call.workerI = 0 THEN quantize(call.channelData) ELSE @,
          !.blocks = @ + 1,
          !.inbox = IF call.workerI % (sampleBlockSize * progressEvery) = 0
                    THEN Append(@, [type |-> "progress", i |-> call.workerI,
                                    total |-> call.length, blocks |-> call.blocks + 1,
                                    flushed |-> FALSE])
                    ELSE @,
          !.workerI = @ + sampleBlockSize]
  ELSE [call EXCEPT
          !.flushed = TRUE,
          !.inbox = Append(@, [type |-> "done", i |-> call.workerI,
                               total |-> call.length, blocks |-> call.blocks,
                               flushed |-> TRUE]),
          !.worker = "finished"]

\* the worker runs its block loop up to its next postMessage
RECURSIVE workerPost(_)
workerPost(call) ==
  LET next == workerBlock(call)
  IN IF Len(next.inbox) > Len(call.inbox) THEN next ELSE workerPost(next)

\* worker.terminate(): nothing the worker posted is delivered afterwards
terminate(call) == [call EXCEPT !.worker = "terminated", !.inbox = <<>>]

\* worker.onmessage for the oldest message
onmessage(call) ==
  LET msg == Head(call.inbox)
      rest == [call EXCEPT !.inbox = Tail(@)]
  IN IF msg.type = "progress" THEN updateProgress(rest, encodeProgress(msg))
     ELSE [terminate(updateProgress(rest, Whole(100))) EXCEPT
             !.promise = "resolved", !.audioCtx = "closed"]

\* worker.onerror
onerror(call) ==
  [terminate(call) EXCEPT !.promise = "Error", !.audioCtx = "closed"]

\* variant: no 'abort' listener is registered, abort() only sets the flag
abortFlagOnly(call) == [call EXCEPT !.aborted = TRUE]

\* controller.abort(): the flag is set and the 'abort' listener, registered once
\* the worker exists, runs
abort(call) ==
  LET c1 == [call EXCEPT !.aborted = TRUE]
  IN IF call.stage = "encode"
     THEN [terminate(c1) EXCEPT
             !.promise = IF @ = "pending" THEN "AbortError" ELSE @,
             !.audioCtx = "closed"]
     ELSE c1

(* ------------------- soundGenerator: bufferToWav ---------------------- *)

\* DataView.setUint16 / setUint32 / setInt16 with littleEndian = true: the `width`
\* low bytes of the number, lowest first
littleEndian(data, width) == [k \in 1..width |-> (data \div (256 ^ (k - 1))) % 256]

setUint16(data) == littleEndian(data, 2)
setUint32(data) == littleEndian(data, 4)

\* variant: the block-align and the byte rate are those of a mono stream
wavHeaderMono(numOfChan, rate, length) ==
  LET riff == setUint32(1179011410) \o setUint32(length - 8) \o setUint32(1163280727)
      fmt == setUint32(544501094) \o setUint32(16) \o setUint16(1)
               \o setUint16(numOfChan) \o setUint32(rate)
               \o setUint32(rate * 2) \o setUint16(2)
               \o setUint16(16)
      pos == Len(riff) + Len(fmt) + 4
  IN riff \o fmt \o setUint32(1635017060) \o setUint32(length - pos - 44)

\* the header writes, each at `pos`, which they advance
wavHeader(numOfChan, rate, length) ==
  LET riff == setUint32(1179011410) \o setUint32(length - 8) \o setUint32(1163280727)
      fmt == setUint32(544501094) \o setUint32(16) \o setUint16(1)
               \o setUint16(numOfChan) \o setUint32(rate)
               \o setUint32(rate * 2 * numOfChan) \o setUint16(numOfChan * 2)
               \o setUint16(16)
      pos == Len(riff) + Len(fmt) + 4
  IN riff \o fmt \o setUint32(1635017060) \o setUint32(length - pos - 44)

\* sample < 0 ? sample * 0x8000 : sample * 0x7FFF, | 0, for a clamped sample in
\* units of 1 / SampleDen
scaleSample(sample) ==
  IF sample < 0 THEN -((-sample * 32768) \div SampleDen)
  ELSE (sample * 32767) \div SampleDen

\* the frames channels[i][pos] for pos from `pos` up to len - 1, interleaved
RECURSIVE interleave(_, _, _)
interleave(abuffer, pos, len) ==
  IF pos >= len THEN <<>>
  ELSE LET Frame[i \in 0..abuffer.numberOfChannels] ==
             IF i = abuffer.numberOfChannels THEN <<>>
             ELSE littleEndian(scaleSample(clampSample(abuffer.channels[i + 1][pos + 1])), 2)
                    \o Frame[i + 1]
       IN Frame[0] \o interleave(abuffer, pos + 1, len)

\* bufferToWav(abuffer, len): the bytes of the Blob. The buffer of `length` bytes
\* starts as zeros; the sample loop starts from the `pos` the header left
bufferToWav(abuffer, len) ==
  LET numOfChan == abuffer.numberOfChannels
      length == len * numOfChan * 2 + 44
      header == wavHeader(numOfChan, abuffer.sampleRate, length)
      written == header \o interleave(abuffer, Len(header), len)
  IN [k \in 1..length |-> IF k <= Len(written) THEN written[k] ELSE 0]

(* ------------------------------- inputs ------------------------------- *)

\* a File: its decoded duration in ticks, whether decodeAudioData accepts it, and
\* the samples of its first channel in hundredths of full scale
File(dur, ok, data) == [dur |-> dur, ok |-> ok, data |-> data]
CorruptFile == File(0, FALSE, <<>>)
Silence == <<0, 0, 0, 0>>

UploadFiles == {File(2 * TicksPerSecond, TRUE, <<2, 0, 0, 0>>), CorruptFile}
EffectFile == File(2 * TicksPerSecond, TRUE, <<30, 0, 0, 0>>)
SliderVolumes == {50, 200}
SliderCrossfades == {0, 12 * TicksPerSecond}

DirectFiles == {File(2, TRUE, Silence), File(2 * TicksPerSecond, TRUE, Silence),
                File(6 * TicksPerSecond, TRUE, Silence), CorruptFile}
DirectVolumes == {100, 150}
DirectCrossfades == {0, TicksPerSecond \div 2, 2 * TicksPerSecond, 10 * TicksPerSecond}

\* the clips and crossfades the mix scheduler is given
ScheduleFiles == {File(2, TRUE, Silence), File(2 * TicksPerSecond, TRUE, Silence),
                  File(10 * TicksPerSecond, TRUE, Silence)}
ScheduleVolumes == {100, 150}
ScheduleCrossfades == {0, TicksPerSecond \div 2, 2 * TicksPerSecond, 10 * TicksPerSecond,
                       12 * TicksPerSecond}

\* the sample values of the composites the encoder worker is given, from -1.5 to 1.5
WorkerSamples == (-(SampleDen + SampleDen \div 2))..(SampleDen + SampleDen \div 2)

\* the first channels the loudness analyzer is given: silence, a quiet sample, a
\* moderate one and one beyond full scale, in buffers of 1 to MaxSamples samples
AnalyzerSamples == {0, 3, -40, 200}
AnalyzerData == UNION {[1..n -> AnalyzerSamples] : n \in 1..MaxSamples}

\* the buffers bufferToWav is given: 1 or 2 channels of `len` frames whose samples
\* run through -1.5, -1, ..., 1.5
WavSample(c, i) == (((i + 3 * c) % 7) - 3) * (SampleDen \div 2)
AudioBuffer(numOfChan, rate, len) ==
  [numberOfChannels |-> numOfChan,
   sampleRate |-> rate,
   length |-> len,
   channels |-> [c \in 1..numOfChan |-> [i \in 1..len |-> WavSample(c, i)]]]
WavBuffers == {AudioBuffer(c, r, n) : c \in {1, 2}, r \in {8000, 44100},
                                      n \in {1, MaxFrames - 1, MaxFrames}}

\* the durations of the composites the encoder worker is given
WorkerDurations == {TicksPerSecond, 2 * TicksPerSecond, 4 * TicksPerSecond}

Track(id, file, volume) == [id |-> id, file |-> file, volume |-> volume]

(* --------------------------- App: handleMerge -------------------------- *)

Pending(m) == merges[m].promise = "pending"

\* variant: tracks.length < 1
tooFewTracksOffByOne(tks) == Len(tks) < 1

\* tracks.length < 2
tooFewTracks(tks) == Len(tks) < 2

\* variant: the catch block takes every rejection for a cancellation
isCancellationAlways(outcome) == TRUE

\* err.name === 'AbortError' || err.message === 'Operation cancelled'
isCancellation(outcome) == outcome = "AbortError"

\* (percent) => setProgress(Math.round(percent)), for the values the task reported
onProgress(old, new) ==
  IF Len(new.reported) > Len(old.reported) THEN MathRound(Last(new.reported))
  ELSE progress

\* what an App-made call does to the App in the task that took it from old to new:
\* the progress callback, and handleMerge resuming after its await
handleMergeResume(m, old, new) ==
  IF new.promise = "pending" \/ old.promise # "pending"
  THEN /\ progress' = onProgress(old, new)
       /\ UNCHANGED <<status, mergedBlob, previewUrl, errorMsg, abortControllerRef>>
  ELSE /\ abortControllerRef' = 0
       /\ IF new.promise = "resolved"
          THEN /\ mergedBlob' = m
               /\ previewUrl' = m
               /\ status' = COMPLETED
               /\ progress' = onProgress(old, new)
               /\ UNCHANGED errorMsg
          ELSE IF isCancellation(new.promise)
          THEN /\ status' = IDLE
               /\ progress' = 0
               /\ UNCHANGED <<mergedBlob, previewUrl, errorMsg>>
          ELSE /\ errorMsg' = "Errore durante l'unione"
               /\ status' = ERROR
               /\ progress' = onProgress(old, new)
               /\ UNCHANGED <<mergedBlob, previewUrl>>

\* one task of call m, taking its record to new
task(m, new) ==
  /\ merges' = [merges EXCEPT ![m] = new]
  /\ IF merges[m].caller = "App"
     THEN handleMergeResume(m, merges[m], new)
     ELSE UNCHANGED <<status, mergedBlob, previewUrl, errorMsg, progress,
                      abortControllerRef>>

handleMerge ==
  IF tooFewTracks(tracks)
  THEN /\ errorMsg' = "Seleziona almeno 2 file da unire."
       /\ UNCHANGED <<status, progress, abortControllerRef, merges>>
  ELSE LET call == mergeAudioTracks(tracks, crossfade, "App")
       IN /\ Len(merges) < MaxMerges
          /\ abortControllerRef' = Len(merges) + 1
          /\ errorMsg' = "null"
          /\ status' = PROCESSING
          /\ progress' = MathRound(Last(call.reported))
          /\ merges' = Append(merges, call)

handleCancel == showCancelModal' = TRUE

(* ----------------------------- App: actions ---------------------------- *)

\* one more input of the user
gesture == gestures < MaxGestures /\ gestures' = gestures + 1

RECURSIVE newTracks(_, _)
newTracks(files, id) ==
  IF files = <<>> THEN <<>>
  ELSE <<Track(id, Head(files), 100)>> \o newTracks(Tail(files), id + 1)

addFilesToTracks(files) ==
  /\ nextId + Len(files) - 1 <= MaxTracks
  /\ tracks' = tracks \o newTracks(files, nextId)
  /\ nextId' = nextId + Len(files)
  /\ mergedBlob' = 0
  /\ previewUrl' = 0
  /\ status' = IDLE
  /\ progress' = 0

handleFileUpload ==
  /\ gesture
  /\ \E files \in UNION {[1..k -> UploadFiles] : k \in 1..2} : addFilesToTracks(files)
  /\ UNCHANGED <<errorMsg, abortControllerRef, showCancelModal, crossfade,
                 analyzingTrackId, isGeneratingEffect, merges, autoLevels>>

\* handleAddEffect up to await generateSoundEffect(...)
handleAddEffect ==
  /\ gesture
  /\ ~isGeneratingEffect
  /\ nextId <= MaxTracks
  /\ isGeneratingEffect' = TRUE
  /\ UNCHANGED <<tracks, status, mergedBlob, previewUrl, errorMsg, progress,
                 abortControllerRef, showCancelModal, crossfade, analyzingTrackId,
                 merges, autoLevels, nextId>>

\* generateSoundEffect resolved
handleAddEffectDone ==
  /\ UNCHANGED gestures
  /\ isGeneratingEffect
  /\ addFilesToTracks(<<EffectFile>>)
  /\ isGeneratingEffect' = FALSE
  /\ UNCHANGED <<errorMsg, abortControllerRef, showCancelModal, crossfade,
                 analyzingTrackId, merges, autoLevels>>

\* generateSoundEffect resolved with the File of the Blob that bufferToWav made
\* of the rendered buffer
handleAddEffectEncoded ==
  /\ UNCHANGED gestures
  /\ isGeneratingEffect
  /\ \E renderedBuffer \in WavBuffers :
       addFilesToTracks(<<[dur |-> EffectFile.dur, ok |-> TRUE, data |-> Silence,
                           buffer |-> renderedBuffer,
                           bytes |-> bufferToWav(renderedBuffer, renderedBuffer.length)]>>)
  /\ isGeneratingEffect' = FALSE
  /\ UNCHANGED <<errorMsg, abortControllerRef, showCancelModal, crossfade,
                 analyzingTrackId, merges, autoLevels>>

\* generateSoundEffect rejected
handleAddEffectFailed ==
  /\ UNCHANGED gestures
  /\ isGeneratingEffect
  /\ errorMsg' = "Errore nella generazione dell'effetto audio."
  /\ isGeneratingEffect' = FALSE
  /\ UNCHANGED <<tracks, status, mergedBlob, previewUrl, progress, abortControllerRef,
                 showCancelModal, crossfade, analyzingTrackId, merges, autoLevels,
                 nextId>>

removeTrack ==
  /\ gesture
  /\ \E id \in {tracks[k].id : k \in DOMAIN tracks} :
       tracks' = SelectSeq(tracks, LAMBDA t : t.id # id)
  /\ IF status = COMPLETED
     THEN /\ status' = IDLE
          /\ mergedBlob' = 0
          /\ previewUrl' = 0
          /\ progress' = 0
     ELSE UNCHANGED <<status, mergedBlob, previewUrl, progress>>
  /\ UNCHANGED <<errorMsg, abortControllerRef, showCancelModal, crossfade,
                 analyzingTrackId, isGeneratingEffect, merges, autoLevels, nextId>>

\* the "Svuota tutto" button, confirm() answered yes
clearAllTracks ==
  /\ gesture
  /\ Len(tracks) > 0
  /\ tracks' = <<>>
  /\ mergedBlob' = 0
  /\ previewUrl' = 0
  /\ status' = IDLE
  /\ errorMsg' = "null"
  /\ progress' = 0
  /\ UNCHANGED <<abortControllerRef, showCancelModal, crossfade, analyzingTrackId,
                 isGeneratingEffect, merges, autoLevels, nextId>>

\* updateTrackVolume as defined by the render that saw status `seen`
updateTrackVolume(id, volume, seen) ==
  /\ tracks' = [k \in DOMAIN tracks |->
                  IF tracks[k].id = id THEN [tracks[k] EXCEPT !.volume = volume]
                  ELSE tracks[k]]
  /\ IF seen = COMPLETED
     THEN /\ status' = IDLE
          /\ mergedBlob' = 0
          /\ previewUrl' = 0
     ELSE UNCHANGED <<status, mergedBlob, previewUrl>>

\* the range input of a track
volumeSlider ==
  /\ gesture
  /\ \E k \in DOMAIN tracks, volume \in SliderVolumes :
       /\ tracks[k].volume # volume
       /\ updateTrackVolume(tracks[k].id, volume, status)
  /\ UNCHANGED <<errorMsg, progress, abortControllerRef, showCancelModal, crossfade,
                 analyzingTrackId, isGeneratingEffect, merges, autoLevels, nextId>>

\* the mute button of a track
muteToggle ==
  /\ gesture
  /\ \E k \in DOMAIN tracks :
       updateTrackVolume(tracks[k].id, IF tracks[k].volume = 0 THEN 100 ELSE 0, status)
  /\ UNCHANGED <<errorMsg, progress, abortControllerRef, showCancelModal, crossfade,
                 analyzingTrackId, isGeneratingEffect, merges, autoLevels, nextId>>

\* for (i = 0; i < data.length; i += step) sum += data[i] * data[i]
RECURSIVE sumOfSquares(_, _)
sumOfSquares(data, i) ==
  IF i >= Len(data) THEN 0
  ELSE data[i + 1] * data[i + 1] + sumOfSquares(data, i + step)

\* sum / (data.length / step): the square of rms
meanSquare(data) == Frac(sumOfSquares(data, 0) * step, Len(data))

\* the integer part of the square root of n, between lo and hi
RECURSIVE sqrtBetween(_, _, _)
sqrtBetween(n, lo, hi) ==
  IF hi - lo <= 1 THEN lo
  ELSE LET mid == (lo + hi) \div 2
       IN IF mid <= n \div mid THEN sqrtBetween(n, mid, hi)
          ELSE sqrtBetween(n, lo, mid)

\* targetRms / Math.sqrt(ms) in hundredths, for ms > 0 (the fraction of a hundredth
\* is dropped)
optimalGain(ms) ==
  LET n == (100 * 100 * targetRms * targetRms * ms.den) \div ms.num
  IN sqrtBetween(n, 0, n + 1)

\* variant: the gain is clamped to the range of the volume slider
calculateOptimalVolumeSliderRange(file) ==
  IF ~file.ok THEN 100
  ELSE LET ms == meanSquare(file.data)
       IN IF ms.num = 0 THEN 100
          ELSE Min(Max(optimalGain(ms), 0), 200)

\* variant: the gain is returned as computed, without the clamp
calculateOptimalVolumeUnclamped(file) ==
  IF ~file.ok THEN 100
  ELSE LET ms == meanSquare(file.data)
       IN IF ms.num = 0 THEN 100
          ELSE optimalGain(ms)

\* calculateOptimalVolume(file), in hundredths
calculateOptimalVolume(file) ==
  IF ~file.ok THEN 100
  ELSE LET ms == meanSquare(file.data)
       IN IF ms.num = 0 THEN 100
          ELSE Min(Max(optimalGain(ms), 10), 300)

\* handleAutoLevel up to await calculateOptimalVolume(track.file)
handleAutoLevel ==
  /\ gesture
  /\ Len(autoLevels) < MaxAutoLevels
  /\ \E k \in DOMAIN tracks :
       /\ analyzingTrackId # tracks[k].id
       /\ analyzingTrackId' = tracks[k].id
       /\ autoLevels' = Append(autoLevels,
                               [track |-> tracks[k], status |-> status, done |-> FALSE])
  /\ UNCHANGED <<tracks, status, mergedBlob, previewUrl, errorMsg, progress,
                 abortControllerRef, showCancelModal, crossfade, isGeneratingEffect,
                 merges, nextId>>

\* handleAutoLevel resuming: updateTrackVolume is the one of the render it started in
handleAutoLevelDone ==
  /\ UNCHANGED gestures
  /\ \E a \in DOMAIN autoLevels :
       /\ ~autoLevels[a].done
       /\ autoLevels' = [autoLevels EXCEPT ![a].done = TRUE]
       /\ updateTrackVolume(autoLevels[a].track.id,
                            calculateOptimalVolume(autoLevels[a].track.file),
                            autoLevels[a].status)
  /\ analyzingTrackId' = 0
  /\ UNCHANGED <<errorMsg, progress, abortControllerRef, showCancelModal, crossfade,
                 isGeneratingEffect, merges, nextId>>

moveTrack ==
  /\ gesture
  /\ \E index \in DOMAIN tracks, targetIndex \in DOMAIN tracks :
       /\ targetIndex \in {index - 1, index + 1}
       /\ tracks' = [tracks EXCEPT ![index] = tracks[targetIndex],
                                   ![targetIndex] = tracks[index]]
  /\ UNCHANGED <<status, mergedBlob, previewUrl, errorMsg, progress,
                 abortControllerRef, showCancelModal, crossfade, analyzingTrackId,
                 isGeneratingEffect, merges, autoLevels, nextId>>

\* the crossfade range input, shown when tracks.length > 1
setCrossfade ==
  /\ gesture
  /\ Len(tracks) > 1
  /\ \E c \in SliderCrossfades : c # crossfade /\ crossfade' = c
  /\ UNCHANGED <<tracks, status, mergedBlob, previewUrl, errorMsg, progress,
                 abortControllerRef, showCancelModal, analyzingTrackId,
                 isGeneratingEffect, merges, autoLevels, nextId>>

\* disabled={tracks.length < 2} of the merge/cancel button
buttonDisabled == Len(tracks) < 2

\* onClick of the merge/cancel button
mergeButton ==
  /\ gesture
  /\ ~buttonDisabled
  /\ IF status = PROCESSING
     THEN /\ handleCancel
          /\ UNCHANGED <<status, errorMsg, progress, abortControllerRef, merges>>
     ELSE /\ handleMerge
          /\ UNCHANGED showCancelModal
  /\ UNCHANGED <<tracks, mergedBlob, previewUrl, crossfade, analyzingTrackId,
                 isGeneratingEffect, autoLevels, nextId>>

\* handleMerge entered with fewer than 2 clips: the function's own validation, which
\* does not rely on the button's disabled attribute
mergeRequestTooFew ==
  /\ gesture
  /\ status # PROCESSING
  /\ Len(tracks) < 2
  /\ handleMerge
  /\ UNCHANGED <<tracks, mergedBlob, previewUrl, showCancelModal, crossfade,
                 analyzingTrackId, isGeneratingEffect, autoLevels, nextId>>

\* "No, continua"
dismissCancel ==
  /\ gesture
  /\ showCancelModal
  /\ showCancelModal' = FALSE
  /\ UNCHANGED <<tracks, status, mergedBlob, previewUrl, errorMsg, progress,
                 abortControllerRef, crossfade, analyzingTrackId, isGeneratingEffect,
                 merges, autoLevels, nextId>>

\* "Si, annulla"
confirmCancel ==
  /\ gesture
  /\ showCancelModal
  /\ IF abortControllerRef # 0
     THEN task(abortControllerRef, abort(merges[abortControllerRef]))
     ELSE UNCHANGED <<status, mergedBlob, previewUrl, errorMsg, progress,
                      abortControllerRef, merges>>
  /\ showCancelModal' = FALSE
  /\ UNCHANGED <<tracks, crossfade, analyzingTrackId, isGeneratingEffect, autoLevels,
                 nextId>>

(* ------------------- the tasks of the calls in flight ------------------ *)

uiUnchanged == UNCHANGED <<tracks, showCancelModal, crossfade, analyzingTrackId,
                           isGeneratingEffect, autoLevels, nextId, gestures>>

Awaited(m) == merges[m].tracks[Len(merges[m].audioBuffers) + 1].file

decodeDone ==
  \E m \in DOMAIN merges :
    /\ Pending(m) /\ merges[m].stage = "decode"
    /\ Awaited(m).ok
    /\ task(m, decodeResolved(merges[m]))
    /\ uiUnchanged

decodeFailed ==
  \E m \in DOMAIN merges :
    /\ Pending(m) /\ merges[m].stage = "decode"
    /\ ~Awaited(m).ok
    /\ task(m, throwError(merges[m]))
    /\ uiUnchanged

renderDone ==
  \E m \in DOMAIN merges :
    /\ Pending(m) /\ merges[m].stage = "render"
    /\ task(m, renderResolved(merges[m]))
    /\ uiUnchanged

renderFailed ==
  \E m \in DOMAIN merges :
    /\ Pending(m) /\ merges[m].stage = "render"
    /\ task(m, throwError(merges[m]))
    /\ uiUnchanged

workerRuns ==
  \E m \in DOMAIN merges :
    /\ merges[m].worker = "running"
    /\ task(m, workerPost(merges[m]))
    /\ uiUnchanged

workerMessage ==
  \E m \in DOMAIN merges :
    /\ merges[m].inbox # <<>>
    /\ task(m, onmessage(merges[m]))
    /\ uiUnchanged

workerError ==
  \E m \in DOMAIN merges :
    /\ merges[m].worker = "running"
    /\ task(m, onerror(merges[m]))
    /\ uiUnchanged

\* the caller of a direct call signals its AbortController
callerAborts ==
  \E m \in DOMAIN merges :
    /\ merges[m].caller = "direct"
    /\ Pending(m) /\ ~merges[m].aborted
    /\ task(m, abort(merges[m]))
    /\ uiUnchanged

\* the worker encodes the next block, or flushes and posts 'done'
workerEncodes ==
  \E m \in DOMAIN merges :
    /\ merges[m].worker = "running"
    /\ task(m, workerBlock(merges[m]))
    /\ uiUnchanged

(* ---------------------------- specifications --------------------------- *)

AppInit ==
  /\ tracks = <<>>
  /\ status = IDLE
  /\ mergedBlob = 0
  /\ previewUrl = 0
  /\ errorMsg = "null"
  /\ progress = 0
  /\ abortControllerRef = 0
  /\ showCancelModal = FALSE
  /\ crossfade = defaultCrossfade
  /\ analyzingTrackId = 0
  /\ isGeneratingEffect = FALSE
  /\ autoLevels = <<>>
  /\ nextId = 1
  /\ gestures = 0

\* the App after mounting
Init ==
  /\ AppInit
  /\ merges = <<>>

Next ==
  \/ handleFileUpload
  \/ handleAddEffect
  \/ handleAddEffectDone
  \/ handleAddEffectFailed
  \/ removeTrack
  \/ clearAllTracks
  \/ volumeSlider
  \/ muteToggle
  \/ handleAutoLevel
  \/ handleAutoLevelDone
  \/ moveTrack
  \/ setCrossfade
  \/ mergeButton
  \/ mergeRequestTooFew
  \/ dismissCancel
  \/ confirmCancel
  \/ decodeDone
  \/ decodeFailed
  \/ renderDone
  \/ renderFailed
  \/ workerRuns
  \/ workerMessage
  \/ workerError

Spec == Init /\ [][Next]_vars

\* the playlists a direct call is given
DirectPlaylists ==
  UNION {[1..n -> {Track(0, f, v) : f \in DirectFiles, v \in DirectVolumes}]
           : n \in 0..MaxClips}

\* one direct call of mergeAudioTracks with a recording callback and a signal
InitCall ==
  /\ AppInit
  /\ \E tks \in DirectPlaylists, c \in DirectCrossfades :
       merges = <<mergeAudioTracks(tks, c, "direct")>>

NextCall ==
  \/ decodeDone
  \/ decodeFailed
  \/ renderDone
  \/ renderFailed
  \/ workerRuns
  \/ workerMessage
  \/ workerError
  \/ callerAborts

SpecCall == InitCall /\ [][NextCall]_vars

\* the playlists the mix scheduler is given
SchedulePlaylists ==
  UNION {[1..n -> {Track(0, f, v) : f \in ScheduleFiles, v \in ScheduleVolumes}]
           : n \in 1..MaxClips}

\* one call of mergeAudioTracks followed up to the start of its encoder: the clips
\* are decoded, placed on the timeline and rendered
InitSchedule ==
  /\ AppInit
  /\ \E tks \in SchedulePlaylists, c \in ScheduleCrossfades :
       merges = <<mergeAudioTracks(tks, c, "direct")>>

NextSchedule ==
  \/ decodeDone
  \/ renderDone

SpecSchedule == InitSchedule /\ [][NextSchedule]_vars

\* the encoder worker of one call, from the message that starts it, block by block;
\* its messages stay in the inbox in the order it posted them
InitWorker ==
  /\ AppInit
  /\ \E d \in WorkerDurations, x \in WorkerSamples :
       merges = <<[renderResolved(decodeResolved(
                     mergeAudioTracks(<<Track(0, File(d, TRUE, Silence), 100)>>, 0, "direct")))
                   EXCEPT !.channelData = x]>>

NextWorker == workerEncodes

SpecWorker == InitWorker /\ [][NextWorker]_vars

\* the loudness analyzer run on one track, through the auto-level button
InitAnalyze ==
  /\ \E data \in AnalyzerData :
       tracks = <<Track(1, File(2 * TicksPerSecond, TRUE, data), 100)>>
  /\ status = IDLE
  /\ mergedBlob = 0
  /\ previewUrl = 0
  /\ errorMsg = "null"
  /\ progress = 0
  /\ abortControllerRef = 0
  /\ showCancelModal = FALSE
  /\ crossfade = defaultCrossfade
  /\ analyzingTrackId = 0
  /\ isGeneratingEffect = FALSE
  /\ autoLevels = <<>>
  /\ nextId = 2
  /\ gestures = 0
  /\ merges = <<>>

NextAnalyze ==
  \/ handleAutoLevel
  \/ handleAutoLevelDone

SpecAnalyze == InitAnalyze /\ [][NextAnalyze]_vars

\* sound effects are generated, encoded as WAV and added to the playlist
NextWav ==
  \/ handleAddEffect
  \/ handleAddEffectEncoded

SpecWav == Init /\ [][NextWav]_vars

(* ------------------------------- claims -------------------------------- *)

AppCalls == {m \in DOMAIN merges : merges[m].caller = "App"}
Settles(m) == Pending(m) /\ merges'[m].promise # "pending"
ValidationMessage == "Seleziona almeno 2 file da unire."
MergeErrorMessage == "Errore durante l'unione"

\* C1: while a merge is in flight the status leaves PROCESSING only in the task in
\* which a merge in flight settles, and then it becomes COMPLETED on success, IDLE
\* on cancellation and ERROR on any other error.
C1_StatusLeavesProcessingOnlyOnSettle ==
  [][(status = PROCESSING /\ status' # PROCESSING /\ \E m \in AppCalls : Pending(m))
       => \E m \in AppCalls :
            /\ Settles(m)
            /\ status' = CASE merges'[m].promise = "resolved" -> COMPLETED
                           [] merges'[m].promise = "AbortError" -> IDLE
                           [] OTHER -> ERROR]_vars

\* C2: at most one mergeAudioTracks call started by handleMerge is unsettled.
C2_AtMostOneMergeInFlight ==
  Cardinality({m \in AppCalls : Pending(m)}) <= 1

\* C3: when the abort signal of a call fires while its encoder worker exists, the
\* worker is terminated, the call rejects with AbortError, the App goes to IDLE with
\* progress 0, the cancellation sets no error message and stores no bytes; a call
\* that rejected with AbortError stays rejected and its bytes are never stored.
C3_CancelDuringEncode ==
  [][\A m \in AppCalls :
       /\ (Pending(m) /\ merges[m].stage = "encode"
             /\ ~merges[m].aborted /\ merges'[m].aborted)
          => /\ merges'[m].worker = "terminated"
             /\ merges'[m].inbox = <<>>
             /\ merges'[m].promise = "AbortError"
             /\ status' = IDLE
             /\ progress' = 0
             /\ errorMsg' = errorMsg
             /\ mergedBlob' = mergedBlob
             /\ previewUrl' = previewUrl
       /\ merges[m].promise = "AbortError"
          => /\ merges'[m].promise = "AbortError"
             /\ mergedBlob' # m
             /\ previewUrl' # m]_vars

C3_Witness ==
  \E m \in AppCalls :
    /\ merges[m].stage = "encode"
    /\ merges[m].aborted
    /\ merges[m].promise = "AbortError"
    /\ merges[m].worker = "terminated"
    /\ status = IDLE /\ progress = 0 /\ errorMsg = "null" /\ mergedBlob = 0

\* the outcome of a cancelled merge in the App
CancelledOutcome(m) ==
  /\ merges'[m].promise = "AbortError"
  /\ status' = IDLE
  /\ progress' = 0
  /\ errorMsg' = errorMsg

\* C4 as stated: a merge whose cancellation was signalled during the decode or render
\* stage ends cancelled (IDLE, progress 0, no error message), whatever the pending
\* decode or render step does.
C4_CancelledWhateverPendingStepDoes ==
  [][\A m \in AppCalls :
       (merges[m].aborted /\ Settles(m)) => CancelledOutcome(m)]_vars

\* C4 as amended: a merge whose cancellation was signalled during the decode or render
\* stage settles in the very next task of the call; it ends cancelled (IDLE,
\* progress 0, no error message) when the decode or render step that was pending
\* completes, and ends ERROR only when that pending step itself fails.
C4_CancelledUnlessPendingStepFails ==
  [][\A m \in AppCalls :
       (Pending(m) /\ merges[m].aborted /\ merges'[m] # merges[m])
         => /\ merges[m].stage \in {"decode", "render"}
            /\ merges'[m].promise \in {"AbortError", "Error"}
            /\ merges'[m].promise = "AbortError" => CancelledOutcome(m)
            /\ merges'[m].promise = "Error"
                 => /\ \/ merges[m].stage = "render"
                       \/ merges[m].stage = "decode" /\ ~Awaited(m).ok
                    /\ status' = ERROR
            /\ (merges[m].stage = "decode" /\ Awaited(m).ok) => CancelledOutcome(m)]_vars

C4_Witness ==
  \E m \in AppCalls :
    /\ merges[m].stage = "render"
    /\ merges[m].aborted
    /\ merges[m].promise = "AbortError"
    /\ status = IDLE /\ progress = 0 /\ errorMsg = "null"

\* C5: handleMerge on a playlist of fewer than 2 clips sets the validation message
\* and changes neither the status nor the progress, creates no AbortController and
\* does not call mergeAudioTracks; no call of the App ever has fewer than 2 clips.
C5_TooFewClipsIsRejected ==
  [][/\ mergeRequestTooFew
          => /\ errorMsg' = ValidationMessage
             /\ status' = status
             /\ progress' = progress
             /\ abortControllerRef' = abortControllerRef
             /\ merges' = merges
     /\ \A m \in AppCalls : Len(merges[m].tracks) >= 2]_vars

C5_Witness ==
  /\ Len(tracks) = 1
  /\ errorMsg = ValidationMessage
  /\ status = IDLE
  /\ merges = <<>>

\* C6: when a decode, the render or the encoder of a call fails with an error that is
\* no cancellation, the status becomes ERROR with an error message, the stored
\* output is not touched, and the call does nothing more: its bytes are never stored.
C6_FailureEndsInError ==
  [][\A m \in AppCalls :
       /\ (Pending(m) /\ merges'[m].promise = "Error")
          => /\ status' = ERROR
             /\ errorMsg' = MergeErrorMessage
             /\ mergedBlob' = mergedBlob
             /\ previewUrl' = previewUrl
             /\ merges'[m].worker \in {"none", "terminated"}
       /\ merges[m].promise = "Error"
          => /\ merges'[m] = merges[m]
             /\ mergedBlob' # m
             /\ previewUrl' # m]_vars

C6_Witness ==
  \E m \in AppCalls :
    /\ merges[m].stage = "encode"
    /\ merges[m].promise = "Error"
    /\ status = ERROR
    /\ errorMsg = MergeErrorMessage
    /\ mergedBlob = 0

\* C7: the values one call passes to its progress callback lie in [0, 100], never
\* decrease, and the last value of a call that resolved is 100.
C7_ProgressMonotone ==
  \A m \in DOMAIN merges :
    LET r == merges[m].reported
    IN /\ \A k \in DOMAIN r : Leq(Whole(0), r[k]) /\ Leq(r[k], Whole(100))
       /\ \A k \in 1..(Len(r) - 1) : Leq(r[k], r[k + 1])
       /\ merges[m].promise = "resolved"
            => r # <<>> /\ Leq(Whole(100), Last(r)) /\ Leq(Last(r), Whole(100))

\* a resolved call of 3 clips whose worker reported progress at least 3 times
C7_Witness ==
  \E m \in DOMAIN merges :
    /\ merges[m].promise = "resolved"
    /\ Len(merges[m].tracks) = 3
    /\ Len(merges[m].reported) >= 1 + 3 + 3 + 3 + 1

\* C8: a call renders the playlist and crossfade the App had when handleMerge
\* started it: its clips, their order and their gains never change afterwards, the
\* buffers it decodes and the gains it schedules are those of that playlist.
C8_MergeRendersItsSnapshot ==
  [][/\ \A m \in AppCalls :
          /\ merges'[m].tracks = merges[m].tracks
          /\ merges'[m].crossfadeDuration = merges[m].crossfadeDuration
          /\ \A i \in DOMAIN merges'[m].audioBuffers :
               merges'[m].audioBuffers[i] = merges[m].tracks[i].file.dur
          /\ merges'[m].graph # <<>>
               => /\ Len(merges'[m].graph) = Len(merges[m].tracks)
                  /\ \A i \in DOMAIN merges'[m].graph :
                       /\ merges'[m].graph[i].volume = merges[m].tracks[i].volume
                       /\ merges'[m].graph[i].duration = merges[m].tracks[i].file.dur
     /\ Len(merges') > Len(merges)
          => /\ Last(merges').tracks = tracks
             /\ Last(merges').crossfadeDuration = crossfade]_vars

\* a call has scheduled its clips after the volume of its first clip was changed
C8_Witness ==
  \E m \in AppCalls :
    /\ merges[m].graph # <<>>
    /\ tracks # <<>>
    /\ tracks[1].id = merges[m].tracks[1].id
    /\ tracks[1].volume # merges[m].tracks[1].volume
    /\ merges[m].graph[1].volume = merges[m].tracks[1].volume
    /\ merges[m].promise = "resolved"

ClipDurations(m) == [i \in DOMAIN merges[m].tracks |-> merges[m].tracks[i].file.dur]

\* max(1, sum(d_i) - c * (n - 1)) seconds, in ticks
CompositeTicks(m) ==
  Max(TicksPerSecond,
      SumSeq(ClipDurations(m))
        - merges[m].crossfadeDuration * (Len(merges[m].tracks) - 1))

\* C9: the composite buffer a call creates has ceil(44100 * max(1, sum(d_i) -
\* c * (n - 1))) sample frames.
C9_CompositeLength ==
  \A m \in DOMAIN merges :
    merges[m].graph # <<>>
      => /\ (merges[m].length - 1) * TicksPerSecond < sampleRate * CompositeTicks(m)
         /\ merges[m].length * TicksPerSecond >= sampleRate * CompositeTicks(m)

\* 3 clips with a crossfade, longer than the 1 s floor, and a length that is rounded up
C9_Witness ==
  \E m \in DOMAIN merges :
    /\ merges[m].graph # <<>>
    /\ Len(merges[m].tracks) = 3
    /\ merges[m].crossfadeDuration > 0
    /\ CompositeTicks(m) > TicksPerSecond
    /\ merges[m].length * TicksPerSecond > sampleRate * CompositeTicks(m)

\* C10: the fade of every clip is min(c, d_i / 2), so at most d_i / 2 (1 s for a 2 s
\* clip under a 10 s crossfade), and its fade-in ends no later than its fade-out starts.
C10_EffectiveFade ==
  \A m \in DOMAIN merges :
    \A i \in DOMAIN merges[m].graph :
      LET node == merges[m].graph[i]
          c == merges[m].crossfadeDuration
          d == merges[m].tracks[i].file.dur
      IN /\ 2 * node.fade = Min(2 * c, d)
         /\ 2 * node.fade <= d
         /\ node.start + node.fade <= node.start + d - node.fade
         /\ (d = 2 * TicksPerSecond /\ c = 10 * TicksPerSecond)
              => node.fade = TicksPerSecond

C10_Witness ==
  \E m \in DOMAIN merges :
    \E i \in DOMAIN merges[m].graph :
      /\ merges[m].tracks[i].file.dur = 2 * TicksPerSecond
      /\ merges[m].crossfadeDuration = 10 * TicksPerSecond
      /\ merges[m].graph[i].fade = TicksPerSecond

\* the gain of clip i at time t that the envelope rule gives, in hundredths
EnvelopeGain(m, i, t) ==
  LET n == Len(merges[m].tracks)
      start == merges[m].graph[i].start
      d == merges[m].tracks[i].file.dur
      gain == merges[m].tracks[i].volume
      fade == Min(2 * merges[m].crossfadeDuration, d) \div 2
  IN IF i > 1 /\ fade > 0 /\ t < start + fade
     THEN Frac(gain * (t - start), fade)
     ELSE IF i < n /\ fade > 0 /\ t > start + d - fade
     THEN Frac(gain * (start + d - t), fade)
     ELSE Whole(gain)

SameValue(p, q) == p.num * q.den = q.num * p.den

\* C11: at every time of clip i the scheduled gain is the envelope's: a linear ramp
\* from 0 to gain_i over the first fade_i when i is not the first clip and fade_i > 0,
\* a linear ramp from gain_i to 0 over the last fade_i when i is not the last clip
\* and fade_i > 0, and gain_i held elsewhere; a single clip has no ramp at all.
C11_GainEnvelope ==
  \A m \in DOMAIN merges :
    merges[m].stage = "render"
      => \A i \in DOMAIN merges[m].graph :
           LET node == merges[m].graph[i]
               events == timeline(node.gain)
           IN /\ \A t \in node.start..(node.start + node.duration) :
                   SameValue(valueAt(events, t), EnvelopeGain(m, i, t))
              /\ Len(merges[m].graph) = 1
                   => \A k \in DOMAIN events : events[k].op = "setValueAtTime"

\* the middle clip of three is half way up its fade-in, the last clip has no fade-out
C11_Witness ==
  \E m \in DOMAIN merges :
    /\ merges[m].stage = "render"
    /\ Len(merges[m].graph) = 3
    /\ LET node == merges[m].graph[2]
       IN /\ node.fade = 2 * TicksPerSecond
          /\ node.volume = 150
          /\ SameValue(valueAt(timeline(node.gain), node.start + TicksPerSecond),
                       Whole(75))
    /\ LET last == merges[m].graph[3]
       IN SameValue(valueAt(timeline(last.gain), last.start + last.duration),
                    Whole(last.volume))

\* the intervals over which the gain of a clip ramps linearly up from 0, and down to 0
RampsUp(node) ==
  LET events == timeline(node.gain)
  IN {<<events[k].time, events[k + 1].time>> : k \in
        {j \in 1..(Len(events) - 1) :
           /\ events[j + 1].op = "linearRampToValueAtTime"
           /\ events[j].value = 0 /\ events[j + 1].value = node.volume}}

RampsDown(node) ==
  LET events == timeline(node.gain)
  IN {<<events[k].time, events[k + 1].time>> : k \in
        {j \in 1..(Len(events) - 1) :
           /\ events[j + 1].op = "linearRampToValueAtTime"
           /\ events[j].value = node.volume /\ events[j + 1].value = 0}}

\* two clips of 10 s at gain 1 with a crossfade of 2 s
TwoTenSecondClips(m) ==
  /\ Len(merges[m].tracks) = 2
  /\ merges[m].crossfadeDuration = 2 * TicksPerSecond
  /\ \A i \in 1..2 : /\ merges[m].tracks[i].file.dur = 10 * TicksPerSecond
                      /\ merges[m].tracks[i].volume = 100

\* C12: when two adjacent clips both last at least 2c, with c > 0, the fade-out of
\* the first and the fade-in of the second are the same interval [start_{i+1},
\* start_{i+1} + c]; two 10 s clips with c = 2 s give 18 s, the first holds until 8 s
\* and is at 0 by 10 s, the second starts from 0 at 8 s and is at its gain by 10 s.
C12_CrossfadeOverlap ==
  \A m \in DOMAIN merges :
    merges[m].stage = "render"
      => /\ \A i \in 1..(Len(merges[m].graph) - 1) :
              LET c == merges[m].crossfadeDuration
                  next == merges[m].graph[i + 1]
              IN (/\ c > 0
                  /\ merges[m].tracks[i].file.dur >= 2 * c
                  /\ merges[m].tracks[i + 1].file.dur >= 2 * c)
                   => /\ RampsDown(merges[m].graph[i]) = {<<next.start, next.start + c>>}
                      /\ RampsUp(next) = {<<next.start, next.start + c>>}
         /\ TwoTenSecondClips(m)
              => LET first == timeline(merges[m].graph[1].gain)
                     second == timeline(merges[m].graph[2].gain)
                 IN /\ merges[m].length = 18 * sampleRate
                    /\ \A t \in 0..(8 * TicksPerSecond) :
                         SameValue(valueAt(first, t), Whole(100))
                    /\ SameValue(valueAt(first, 9 * TicksPerSecond), Whole(50))
                    /\ SameValue(valueAt(first, 10 * TicksPerSecond), Whole(0))
                    /\ merges[m].graph[2].start = 8 * TicksPerSecond
                    /\ SameValue(valueAt(second, 8 * TicksPerSecond), Whole(0))
                    /\ SameValue(valueAt(second, 9 * TicksPerSecond), Whole(50))
                    /\ \A t \in (10 * TicksPerSecond)..(18 * TicksPerSecond) :
                         SameValue(valueAt(second, t), Whole(100))

\* the two 10 s clips are scheduled, and their ramps overlap
C12_Witness ==
  \E m \in DOMAIN merges :
    /\ merges[m].stage = "render"
    /\ TwoTenSecondClips(m)
    /\ RampsDown(merges[m].graph[1]) = RampsUp(merges[m].graph[2])
    /\ RampsUp(merges[m].graph[2]) # {}

\* C13: the first clip starts at 0 and every next clip at max(0, start_i + d_i - c)
\* for the requested crossfade c, so no clip starts before 0, whatever c is.
C13_CursorRule ==
  \A m \in DOMAIN merges :
    merges[m].stage = "render"
      => LET g == merges[m].graph
             c == merges[m].crossfadeDuration
         IN /\ g[1].start = 0
            /\ \A i \in 1..(Len(g) - 1) :
                 g[i + 1].start = Max(0, g[i].start + merges[m].tracks[i].file.dur - c)
            /\ \A i \in DOMAIN g : g[i].start >= 0

\* the crossfade is longer than the first clip, so the cursor is held at 0, and it
\* moves on after the second clip
C13_Witness ==
  \E m \in DOMAIN merges :
    /\ merges[m].stage = "render"
    /\ Len(merges[m].graph) = 3
    /\ merges[m].tracks[1].file.dur < merges[m].crossfadeDuration
    /\ merges[m].graph[2].start = 0
    /\ merges[m].graph[3].start
         = merges[m].tracks[2].file.dur - merges[m].crossfadeDuration
    /\ merges[m].graph[3].start > 0

\* C14: a call with no clip has failed without reporting progress and without an
\* audio context or a worker; a call with one clip is accepted (it reports progress
\* and waits for its decode), and when it resolves it has decoded, scheduled and
\* encoded that one clip.
C14_ZeroAndOneClip ==
  \A m \in DOMAIN merges :
    /\ Len(merges[m].tracks) = 0
         => /\ merges[m].promise = "Error"
            /\ merges[m].reported = <<>>
            /\ merges[m].audioCtx = "none"
            /\ merges[m].worker = "none"
    /\ Len(merges[m].tracks) = 1
         => /\ merges[m].stage # "none"
            /\ merges[m].reported # <<>>
            /\ merges[m].audioCtx # "none"
            /\ merges[m].promise = "resolved"
                 => /\ merges[m].stage = "encode"
                    /\ Len(merges[m].audioBuffers) = 1
                    /\ Len(merges[m].graph) = 1
                    /\ merges[m].worker = "terminated"

\* a call with exactly one clip has resolved
C14_Witness ==
  \E m \in DOMAIN merges :
    /\ Len(merges[m].tracks) = 1
    /\ merges[m].promise = "resolved"
    /\ merges[m].stage = "encode"

\* C15: the worker encodes the blocks in order, one block of 1152 samples per pass;
\* it posts progress only with a block whose index is a multiple of 50, with values
\* i / totalSamples in [0, 1) that never decrease; after the last block it flushes
\* the encoder and posts 'done' once, with everything encoded, as its last message.
C15_WorkerProtocol ==
  [][\A m \in DOMAIN merges :
       LET old == merges[m]
           new == merges'[m]
           posted == new.inbox
       IN /\ new.blocks \in {old.blocks, old.blocks + 1}
          /\ new.workerI = sampleBlockSize * new.blocks
          /\ new.blocks = old.blocks + 1 => old.workerI < old.length /\ ~new.flushed
          /\ new.blocks = old.blocks => new.flushed /\ old.workerI >= old.length
          /\ Len(posted) \in {Len(old.inbox), Len(old.inbox) + 1}
          /\ SubSeq(posted, 1, Len(old.inbox)) = old.inbox
          /\ \A k \in DOMAIN posted :
               /\ posted[k].total = new.length
               /\ posted[k].type = "progress"
                    => /\ 0 <= posted[k].i /\ posted[k].i < posted[k].total
                       /\ posted[k].i = sampleBlockSize * (posted[k].blocks - 1)
                       /\ (posted[k].blocks - 1) % progressEvery = 0
                       /\ ~posted[k].flushed
                       /\ k > 1 => /\ posted[k - 1].type = "progress"
                                   /\ posted[k - 1].i <= posted[k].i
               /\ posted[k].type = "done"
                    => /\ k = Len(posted)
                       /\ posted[k].flushed
                       /\ posted[k].blocks = CeilDiv(new.length, sampleBlockSize)
                       /\ new.worker = "finished"
          /\ new.worker = "finished" => posted # <<>> /\ Last(posted).type = "done"]_vars

\* the worker has finished a composite of more than 3 * 50 blocks: 4 progress
\* messages and then 'done'
C15_Witness ==
  \E m \in DOMAIN merges :
    /\ merges[m].worker = "finished"
    /\ merges[m].blocks > 3 * progressEvery
    /\ Len(merges[m].inbox) = 5
    /\ merges[m].inbox[4].type = "progress"
    /\ merges[m].inbox[5].type = "done"

\* round(n / d), halves rounded up
Round(n, d) ==
  LET m == 2 * n + d
      e == 2 * d
  IN IF m >= 0 THEN m \div e ELSE -((-m + e - 1) \div e)

\* round(clamp(x, -1, 1) * (x < 0 ? 32768 : 32767)) for x in units of 1 / SampleDen
RoundedQuantization(x) ==
  LET c == IF x < -SampleDen THEN -SampleDen ELSE IF x > SampleDen THEN SampleDen ELSE x
  IN Round(c * (IF x < 0 THEN 32768 ELSE 32767), SampleDen)

\* C16: once the worker has converted the samples, a float sample x has become
\* round(clamp(x, -1, 1) * (x < 0 ? 32768 : 32767)): -32768 for x <= -1, 32767 for
\* x >= 1, 0 for 0, and always a signed 16-bit value.
C16_Quantization ==
  \A m \in DOMAIN merges :
    merges[m].blocks > 0
      => LET x == merges[m].channelData
             q == merges[m].samplesLeft
         IN /\ q = RoundedQuantization(x)
            /\ x <= -SampleDen => q = -32768
            /\ x >= SampleDen => q = 32767
            /\ x = 0 => q = 0
            /\ -32768 <= q /\ q <= 32767

\* the tracks whose auto-level has set their volume
Levelled ==
  {k \in DOMAIN tracks :
     \E a \in DOMAIN autoLevels :
       autoLevels[a].done /\ autoLevels[a].track.id = tracks[k].id}

\* C17: the gain is exactly 1.0 when the computed RMS is zero, otherwise
\* targetRms / rms clamped to [0.1, 3.0]: 3.0 when targetRms / rms >= 3, 0.1 when
\* targetRms / rms <= 0.1, targetRms / rms (to the hundredth) in between; so it is
\* always within [0.1, 3.0].
C17_AnalyzerGain ==
  \A k \in Levelled :
    LET ms == meanSquare(tracks[k].file.data)
        v == tracks[k].volume
        t2 == targetRms * targetRms
    IN /\ 10 <= v /\ v <= 300
       /\ ms.num = 0 => v = 100
       /\ ms.num # 0
            => /\ 9 * ms.num <= t2 * ms.den => v = 300
               /\ ms.num >= 100 * t2 * ms.den => v = 10
               /\ (9 * ms.num > t2 * ms.den /\ ms.num < 100 * t2 * ms.den)
                    => /\ FracLeq(v * v, 1, 10000 * t2 * ms.den, ms.num)
                       /\ ~FracLeq((v + 1) * (v + 1), 1, 10000 * t2 * ms.den, ms.num)

\* a track was levelled to a gain strictly between the two limits
C17_Witness ==
  \E k \in Levelled :
    /\ tracks[k].file.data = <<-40, 0, 0, 0>>
    /\ tracks[k].volume = 37

\* the sum of the squares of the samples at indices 0, 4, 8, ... of a buffer
StridedSquares(data) ==
  LET Strided == {i \in 0..(Len(data) - 1) : i % 4 = 0}
      RECURSIVE Sum(_)
      Sum(S) == IF S = {} THEN 0
                ELSE LET i == CHOOSE j \in S : TRUE
                     IN data[i + 1] * data[i + 1] + Sum(S \ {i})
  IN Sum(Strided)

\* C18: for a buffer of L >= 1 samples the square of the analyzer's RMS is the mean
\* of the squares of the samples at indices 0, 4, 8, ...: their sum divided by the
\* number of samples summed, ceil(L / 4), also when L is not a multiple of 4.
C18_StridedMean ==
  \A k \in Levelled :
    LET data == tracks[k].file.data
    IN SameValue(meanSquare(data), Frac(StridedSquares(data), CeilDiv(Len(data), 4)))

\* the files that bufferToWav encoded
WavFiles == {tracks[k].file : k \in {j \in DOMAIN tracks : "bytes" \in DOMAIN tracks[j].file}}

\* the unsigned little-endian field of `width` bytes at byte offset `at` holds value
FieldIs(bytes, at, width, value) ==
  /\ value >= 0
  /\ \A k \in 0..(width - 1) : bytes[at + k + 1] = (value \div (256 ^ k)) % 256
  /\ value \div (256 ^ (width - 1)) < 256

\* C19: the WAV of a buffer of N frames, C channels and rate R has 44 + N * C * 2
\* bytes, and its header holds format 1 at offset 20, C at 22, R at 24, the byte
\* rate R * C * 2 at 28, the block align C * 2 at 32 and 16 bits per sample at 34.
C19_WavLengthAndFormat ==
  \A f \in WavFiles :
    LET N == f.buffer.length
        C == f.buffer.numberOfChannels
        R == f.buffer.sampleRate
    IN /\ Len(f.bytes) = 44 + N * C * 2
       /\ \A k \in DOMAIN f.bytes : f.bytes[k] \in 0..255
       /\ FieldIs(f.bytes, 20, 2, 1)
       /\ FieldIs(f.bytes, 22, 2, C)
       /\ FieldIs(f.bytes, 24, 4, R)
       /\ FieldIs(f.bytes, 28, 4, R * C * 2)
       /\ FieldIs(f.bytes, 32, 2, C * 2)
       /\ FieldIs(f.bytes, 34, 2, 16)

\* a stereo buffer of more than 44 frames at 44100 Hz was encoded
C19_Witness ==
  \E f \in WavFiles :
    /\ f.buffer.numberOfChannels = 2
    /\ f.buffer.sampleRate = 44100
    /\ f.buffer.length > 44
    /\ Len(f.bytes) = 44 + f.buffer.length * 4

\* C20: the RIFF chunk-size field (offset 4) is the total length minus 8, and the
\* size field of the data sub-chunk (offset 40) is the number of sample bytes after
\* the header, N * C * 2.
C20_WavChunkSizes ==
  \A f \in WavFiles :
    /\ FieldIs(f.bytes, 4, 4, Len(f.bytes) - 8)
    /\ FieldIs(f.bytes, 40, 4, f.buffer.length * f.buffer.numberOfChannels * 2)

\* the signed little-endian 16-bit value at byte offset `at`
Int16At(bytes, at) ==
  LET u == bytes[at + 1] + 256 * bytes[at + 2]
  IN IF u >= 32768 THEN u - 65536 ELSE u

\* C21: the payload of a WAV is the interleaved quantization of the whole buffer:
\* for every frame k in 0..N-1 and channel c in 0..C-1 the 16-bit value at byte
\* offset 44 + (k * C + c) * 2 is the quantized sample of channel c at frame k.
C21_WavPayload ==
  \A f \in WavFiles :
    LET N == f.buffer.length
        C == f.buffer.numberOfChannels
    IN \A k \in 0..(N - 1), c \in 0..(C - 1) :
         Int16At(f.bytes, 44 + (k * C + c) * 2)
           = scaleSample(clampSample(f.buffer.channels[c + 1][k + 1]))

\* C22: between the start and the settlement of a merge started by handleMerge the
\* stored AbortController is the one of that merge, so that confirming the
\* cancellation fires the abort signal of every merge in flight.
C22_CancelReachesTheMergeInFlight ==
  [][/\ \A m \in AppCalls : Pending(m) => abortControllerRef = m
     /\ confirmCancel => \A m \in AppCalls : Pending(m) => merges'[m].aborted]_vars

(* C23: in every reachable state whose status is Processing the cancel     *)
(* action is available: the merge/cancel button is enabled, however the    *)
(* playlist was edited (clips removed or cleared) after the merge started. *)
C23_CancelAvailableWhileProcessing ==
  status = PROCESSING => ~buttonDisabled

(* C24: the clips are decoded one after the other in playlist order and    *)
(* the abort signal is looked at before each decode and before and after   *)
(* the render: once the signal has fired, no decode of a further clip is   *)
(* started, the render is not started unless it was already running, and   *)
(* the encoder worker is not created.                                      *)
C24_NothingStartsOnceCancelled ==
  [][\A m \in DOMAIN merges :
       LET old == merges[m]
           new == merges'[m]
           i == Len(old.audioBuffers)
       IN /\ \/ new.audioBuffers = old.audioBuffers
             \/ /\ old.stage = "decode"
                /\ new.audioBuffers = Append(old.audioBuffers, old.tracks[i + 1].file.dur)
          /\ old.aborted =>
               /\ ~(/\ new.promise = "pending"
                    /\ new.stage = "decode"
                    /\ new.audioBuffers # old.audioBuffers)
               /\ old.stage # "render" => new.stage # "render"
               /\ old.worker = "none" => new.worker = "none"]_vars

\* a call cancelled while its first clip of three was being decoded has ended as
\* cancelled with that one clip decoded, no render and no worker
C24_Witness ==
  \E m \in DOMAIN merges :
    /\ merges[m].aborted
    /\ merges[m].promise = "AbortError"
    /\ merges[m].stage = "decode"
    /\ Len(merges[m].tracks) = 3
    /\ Len(merges[m].audioBuffers) = 1
    /\ merges[m].worker = "none"

(* C25: the audio context a mergeAudioTracks call has created is closed on *)
(* every terminal outcome of the call (success, cancellation at any        *)
(* checkpoint, decode failure, render failure, encoder failure), and the   *)
(* worker, if it was created, is terminated on every terminal outcome.     *)
C25_ResourcesReleasedOnEveryOutcome ==
  \A m \in DOMAIN merges :
    merges[m].promise # "pending" =>
      /\ merges[m].audioCtx # "none" => merges[m].audioCtx = "closed"
      /\ merges[m].worker # "none" => merges[m].worker = "terminated"

(* C26: a stored merged output exists only in the Completed state: in every *)
(* reachable state whose status is Idle, Processing or ERROR, mergedBlob    *)
(* and previewUrl are null, in particular after a merge started from        *)
(* Completed has been started, cancelled or has failed.                     *)
C26_OutputStoredOnlyWhenCompleted ==
  status # COMPLETED => mergedBlob = 0 /\ previewUrl = 0

(* C27: whenever the status is Completed, the stored merged output was      *)
(* produced from the current playlist (same clips, same order, same gains)  *)
(* and from the current crossfade value: every change of the playlist or of *)
(* the mix settings made during or after the merge invalidates the result   *)
(* before Completed is shown.                                               *)
C27_CompletedOutputIsCurrent ==
  status = COMPLETED =>
    /\ mergedBlob \in DOMAIN merges
    /\ merges[mergedBlob].tracks = tracks
    /\ merges[mergedBlob].crossfadeDuration = crossfade

(* C28: the placement on the timeline respects the playlist order: for all *)
(* clip durations d_i > 0 and crossfades c >= 0 the start times of the     *)
(* clips are non-decreasing in playlist order, start_i <= start_{i+1} for  *)
(* every adjacent pair.                                                    *)
C28_StartsNonDecreasing ==
  \A m \in DOMAIN merges :
    merges[m].stage = "render"
      => LET g == merges[m].graph
         IN \A i \in 1..(Len(g) - 1) : g[i].start <= g[i + 1].start

\* C28, as the code has it: a clip that is at least as long as the crossfade, or
\* that starts at 0, is followed by a clip that starts no earlier than it does; a
\* clip shorter than the crossfade that starts after 0 is followed by a clip that
\* starts before it, by the difference c - d_i or at 0.
C28_StartsNonDecreasingUnlessClipShorterThanCrossfade ==
  \A m \in DOMAIN merges :
    merges[m].stage = "render"
      => LET g == merges[m].graph
             c == merges[m].crossfadeDuration
         IN \A i \in 1..(Len(g) - 1) :
              IF g[i].duration >= c \/ g[i].start = 0
              THEN g[i].start <= g[i + 1].start
              ELSE /\ g[i + 1].start < g[i].start
                   /\ g[i + 1].start = Max(0, g[i].start - (c - g[i].duration))

\* a long clip is followed by a clip shorter than the crossfade: the second clip
\* starts after the first and the third clip starts before the second
C28_Witness ==
  \E m \in DOMAIN merges :
    /\ merges[m].stage = "render"
    /\ Len(merges[m].graph) = 3
    /\ merges[m].graph[1].duration >= merges[m].crossfadeDuration
    /\ merges[m].graph[2].duration < merges[m].crossfadeDuration
    /\ merges[m].graph[1].start < merges[m].graph[2].start
    /\ merges[m].graph[3].start < merges[m].graph[2].start
    /\ merges[m].graph[3].start > 0

====
